---- MODULE Spec2Model ----
(***************************************************************************)
(* MiLO middleware: the serial transport (io::SerialChannel) and the RPC   *)
(* manager (core::RPCManager) built on it, as state machines over a small  *)
(* POSIX descriptor table.                                                 *)
(*                                                                         *)
(* Bytes are the strings "a", "b", "CR", "LF"; a std::string is a sequence *)
(* of bytes.  A SerialChannel object is a record [fd_, rx_buffer_].        *)
(***************************************************************************)
EXTENDS Integers, Sequences, FiniteSets, TLC

(* ------------------------------ bounds --------------------------------- *)
\* descriptors the process may hold at once (numbered FirstFd .. FirstFd+MaxFds-1)
MaxFds == 2
\* bytes on the wires beyond which no further write call is started
MaxWire == 1
\* most bytes one ::write accepts short of the whole remainder
MaxChunk == 1
\* bytes the device puts on the receive line per behaviour
MaxRx == 5
\* commands dispatched through the multiplexer in one run
MaxTokens == 2
\* timer ticks after which the clock of the model stops
MaxTime == 1
\* notifyFailure calls in one run
MaxNotes == 3
\* the largest parameter value a thread passes to set
MaxValue == 2
\* state changes of the coordinator in one run
MaxSteps == 8
\* try_push calls of the producer in one run
MaxPush == 4
\* holds of the button in one run
MaxHolds == 2
\* the time, in ms, at which the button is last polled
MaxClock == 1100
\* events passed to Logger::log in one run
MaxEvents == 8

(* ------------------------- program constants --------------------------- *)
\* first descriptor number after stdin/stdout/stderr
FirstFd == 3
\* sendCommand's frame limit
kMaxFrame == 256
\* sizeof(temp) in readLine
kReadBuf == 256

\* ButtonGPIO: a hold shorter than this many ms yields no event
kShortPress == 50
\* ButtonGPIO::longThreshold_, in ms
longThreshold_ == 1000

\* no press event was emitted yet
NoPress == [d |-> 0, ev |-> "none"]

NoFd == -1
CR == "CR"
LF == "LF"
CRLF == <<CR, LF>>

Fds == FirstFd .. (FirstFd + MaxFds - 1)

(* ------------------------------ helpers -------------------------------- *)
Min(a, b) == IF a < b THEN a ELSE b

Max(a, b) == IF a > b THEN a ELSE b

Take(s, n) == SubSeq(s, 1, n)

Drop(s, n) == SubSeq(s, n + 1, Len(s))

IsPrefix(s, t) == Len(s) <= Len(t) /\ Take(t, Len(s)) = s

\* std::string::ends_with("\r\n")
EndsWithCRLF(s) == Len(s) >= 2 /\ s[Len(s) - 1] = CR /\ s[Len(s)] = LF

\* std::string::find("\r\n"): first position (1-based) of CR LF, 0 for npos
FindCRLF(s) ==
  LET hits == {i \in 1 .. (Len(s) - 1) : s[i] = CR /\ s[i + 1] = LF}
  IN  IF hits = {} THEN 0 ELSE CHOOSE i \in hits : \A j \in hits : i <= j

(* ------------------------------ devices -------------------------------- *)
\* enum class Device { PG, PSU, Pump, Count }
Devices == {"PG", "PSU", "Pump"}

\* what a caller may pass as a Device (the enum also has Count)
DeviceArgs == Devices \cup {"Count"}

\* a toString that names no Device
toString_unknown(d) == "Unknown"

\* the name of a Device as the failure messages spell it
toString(d) == IF d \in Devices THEN d ELSE "Unknown"

\* RPCManager::symlinks_, in declaration order
symlinks_ ==
  << [dev |-> "PSU", path |-> "/dev/psu1"],
     [dev |-> "PG", path |-> "/dev/pg1"],
     [dev |-> "Pump", path |-> "/dev/pump1"] >>

\* the tty a stand-alone SerialChannel is opened on (tests/io_test.cpp: slaveName)
ChanPath == "/dev/pts"

Paths == {symlinks_[i].path : i \in 1 .. Len(symlinks_)} \cup {ChanPath}

\* the tty of a Device, by symlinks_
PathOf(d) == symlinks_[CHOOSE i \in 1 .. Len(symlinks_) : symlinks_[i].dev = d].path

\* a Command payload one byte short of the frame limit: its frame is 257 bytes
LongPayload == [i \in 1 .. (kMaxFrame - 1) |-> "a"]

\* Command::toWire
toWire(payload) == payload \o CRLF


(* ------------------------------- state --------------------------------- *)
VARIABLES
  fdTable,        \* the process's descriptor table: fd -> open file or NoFile
  wire,           \* bytes written so far to each tty, by path
  rxq,            \* bytes the device sent to ChanPath, not yet read
  hup,            \* the device behind ChanPath has hung up
  blocked,        \* the tty's output queue is full and is not drained again
  chan,           \* a stand-alone SerialChannel (tests/io_test.cpp: chan)
  tmp,            \* connect()'s loop-local SerialChannel ch
  channels_,      \* RPCManager::channels_
  connected_,     \* RPCManager::connected_
  conn,           \* the thread calling connect(): [pc, idx, result, notes]
  thr,            \* per caller: its position inside sendCommand/writeLine/readLine
  ndebug,         \* the build defines NDEBUG (arm-release) or not (host-debug)
  aborted,        \* assert() failed: the process is gone
  received,       \* every byte ::read has returned to chan, in order
  lines,          \* every line readLine has returned on chan, in order
  chanReopened,   \* open() was called on chan while it held a descriptor
  eofClosed,      \* chan was closed by readLine at end-of-file, not opened since
  stale,          \* how many leading bytes of chan.rx_buffer_ were received
                  \* before chan was last closed, by close() or at end-of-file
  channelState,   \* multiplexer: per Device "up", "lost" or "failed"
  inFlight,       \* multiplexer: per Device the in-flight table
  nextToken,      \* multiplexer: the next correlation token to allocate
  now,            \* the monotonic clock, in timer ticks
  terminal,       \* per token: the terminal events its waiter was signalled
  escalation_,    \* ErrorMonitor::escalation_: a handler is registered
  seen_,          \* ErrorMonitor::seen_, the de-dupe list
  notified,       \* every notifyFailure call so far: [msg, at, reg]
  escalated,      \* the messages the registered handler was called with
  values_,        \* ParameterStore::values_: key -> value, "missing" or "busy"
  mtx_,           \* ParameterStore::mtx_: the thread holding it, or "free"
  sthr,           \* per store thread: its position inside set/get/snapshot
  committed,      \* per key: the value of the last set that has returned
  currentState_,  \* SystemCoordinator::currentState_
  protocol_,      \* ProtocolEngine instances the coordinator owns
  fsmLog,         \* the states entered so far, each with the step that entered it
  buffer_,        \* RingBuffer: the preallocated slots
  head_,          \* RingBuffer: write cursor, advanced by the producer only
  tail_,          \* RingBuffer: read cursor, advanced by the consumer only
  dropped_,       \* RingBuffer: pushes rejected under DropNewest
  prod,           \* the producer thread inside try_push
  cons,           \* the consumer thread inside try_pop
  pushed,         \* values accepted by try_push, in order
  popped,         \* values returned by try_pop, in order
  btnLevel,       \* the push-button is held down
  btnNow,         \* the time passed to ButtonGPIO::poll, in ms
  presed_,        \* ButtonGPIO::presed_
  pressTick_,     \* ButtonGPIO::pressTick_
  holds,          \* holds of the button that poll has seen begin and end
  presses,        \* how many press events were emitted
  lastPress,      \* the last press event emitted, with the hold's duration
  running_,       \* Logger::running_
  logQueue,       \* Logger::buffer_: the events enqueued and not yet taken
  events_dropped, \* events rejected because the ring was full
  storage,        \* the lines in the run file
  logged          \* how many events were passed to Logger::log

vars ==
  << fdTable, wire, rxq, hup, blocked, chan, tmp, channels_, connected_, conn,
     thr, ndebug, aborted, received, lines, chanReopened, eofClosed, stale,
     channelState, inFlight, nextToken, now, terminal,
     escalation_, seen_, notified, escalated,
     values_, mtx_, sthr, committed,
     currentState_, protocol_, fsmLog,
     buffer_, head_, tail_, dropped_, prod, cons, pushed, popped,
     btnLevel, btnNow, presed_, pressTick_, holds, presses, lastPress,
     running_, logQueue, events_dropped, storage, logged >>

osVars == << fdTable, wire, rxq, hup, blocked >>

mgrVars == << tmp, channels_, connected_, conn >>

chanVars == << chan, received, lines, chanReopened, eofClosed, stale >>

muxVars == << channelState, inFlight, nextToken, now, terminal >>

\* the multiplexer's state without the clock
muxTables == << channelState, inFlight, nextToken, terminal >>

\* the serial transport, the RPC manager and their callers
serialVars == << osVars, mgrVars, thr, ndebug, aborted, chanVars >>

monVars == << escalation_, seen_, notified, escalated >>

storeVars == << values_, mtx_, sthr, committed >>

fsmVars == << currentState_, protocol_, fsmLog >>

ringVars == << buffer_, head_, tail_, dropped_, prod, cons, pushed, popped >>

btnVars == << btnLevel, btnNow, presed_, pressTick_, holds, presses, lastPress >>

logVars == << running_, logQueue, events_dropped, storage, logged >>

\* the operator's button and the logger
auxVars == << btnVars, logVars >>

\* the components beside the serial transport and the multiplexer
compVars == << monVars, storeVars, fsmVars, ringVars, auxVars >>

\* threads that call RPCManager::sendCommand
Threads == {"t1", "t2"}

\* the thread that owns the stand-alone channel
IoThread == "io"

Callers == Threads \cup {IoThread}

\* the bytes the device on ChanPath sends
RxBytes == {"a", CR, LF}

(* ---------------------- POSIX descriptor table ------------------------- *)
NoFile == [path |-> "none", opener |-> "none"]

IsOpen(tbl, fd) == fd \in Fds /\ tbl[fd] # NoFile

FreeFds(tbl) == {fd \in Fds : tbl[fd] = NoFile}

\* ::open returns the lowest unused descriptor number
LowestFree(tbl) == CHOOSE fd \in FreeFds(tbl) : \A g \in FreeFds(tbl) : fd <= g

\* ::close(fd): frees the slot; EBADF (no effect) when fd is not open
SysClose(tbl, fd) == IF IsOpen(tbl, fd) THEN [tbl EXCEPT ![fd] = NoFile] ELSE tbl

(* --------------------------- SerialChannel ----------------------------- *)
\* SerialChannel() = default: fd_{-1}, rx_buffer_{}
NewChannel == [fd_ |-> NoFd, rx_buffer_ |-> <<>>]

\* how SerialChannel::open can end: ::open fails (always, when the table is
\* full), or tcgetattr/tcsetattr fails after ::open succeeded, or all succeed
OpenOutcomes(tbl) ==
  IF FreeFds(tbl) = {} THEN {"open_fail"} ELSE {"ok", "open_fail", "attr_fail"}

\* a close that forgets the ::close and only resets fd_
close_leaky(ch, tbl) == [ch |-> [ch EXCEPT !.fd_ = NoFd], tbl |-> tbl]

\* SerialChannel::close: if (fd_ >= 0) ::close(fd_); fd_ = -1
close(ch, tbl) ==
  [ch |-> [ch EXCEPT !.fd_ = NoFd],
   tbl |-> IF ch.fd_ >= 0 THEN SysClose(tbl, ch.fd_) ELSE tbl]

\* SerialChannel::open: fd_ is overwritten by ::open's result whatever it held;
\* on a tcgetattr/tcsetattr failure the new descriptor is closed again
open(ch, path, opener, outcome, tbl) ==
  CASE outcome = "open_fail" ->
         [ch |-> [ch EXCEPT !.fd_ = NoFd], tbl |-> tbl, ret |-> FALSE]
    [] outcome = "attr_fail" ->
         LET n == LowestFree(tbl)
             opened == [tbl EXCEPT ![n] = [path |-> path, opener |-> opener]]
             c == close([ch EXCEPT !.fd_ = n], opened)
         IN  [ch |-> c.ch, tbl |-> c.tbl, ret |-> FALSE]
    [] OTHER ->
         LET n == LowestFree(tbl)
         IN  [ch |-> [ch EXCEPT !.fd_ = n],
              tbl |-> [tbl EXCEPT ![n] = [path |-> path, opener |-> opener]],
              ret |-> TRUE]

\* SerialChannel(SerialChannel&&) = default: memberwise move; the int fd_ is
\* copied and the source keeps its value, rx_buffer_ is moved out of the source
MoveTarget(src) == [fd_ |-> src.fd_, rx_buffer_ |-> src.rx_buffer_]

MoveSource(src) == [fd_ |-> src.fd_, rx_buffer_ |-> <<>>]

\* writeLine: out = line; if (!out.ends_with("\r\n")) out += "\r\n"
FrameOf(line) == IF EndsWithCRLF(line) THEN line ELSE line \o CRLF

\* byte counts one ::write of rem bytes may report
ChunkSizes(rem) == (1 .. Min(rem, MaxChunk)) \cup {rem}

\* bytes on all the wires
RECURSIVE SumLen(_, _)
SumLen(f, S) ==
  IF S = {} THEN 0
  ELSE LET x == CHOOSE y \in S : TRUE IN Len(f[x]) + SumLen(f, S \ {x})

WireLoad == SumLen(wire, Paths)

(* ------------------------------ callers -------------------------------- *)
\* a caller outside any call.  dev, cmd: sendCommand's arguments; line:
\* writeLine's argument, or the line readLine returns; total: writeLine's
\* total; put: the bytes this call's ::write calls have reported written, and
\* dests: the ttys they went to; notes: the messages this call handed to
\* ErrorMonitor::notifyFailure; timeout: readLine's argument, in a sequence;
\* old: how many bytes of the line readLine returns, its CR-LF included, were
\* received before the channel was last closed
IdleCaller ==
  [pc |-> "idle", dev |-> "none", cmd |-> <<>>, line |-> <<>>, total |-> 0,
   put |-> <<>>, dests |-> {}, result |-> "none", notes |-> <<>>,
   timeout |-> <<>>, old |-> 0]

\* no error thrown
NoMsg == [what |-> "none", dev |-> "none"]

\* the thread calling connect(), outside the call.  idx: the loop's position
\* in symlinks_; err: what() of the exception thrown; notes: as for a caller
IdleConn ==
  [pc |-> "idle", idx |-> 1, result |-> "none", err |-> NoMsg, notes |-> <<>>]

\* the SerialChannel a caller's write goes through: chan for the io thread,
\* channels_.find(dev)->second for a sendCommand thread
TargetFd(c) == IF c = IoThread THEN chan.fd_ ELSE channels_[thr[c].dev].fd_

\* "[RPCManager] serial device: <dev> open failed"
OpenFailedMsg(dev) == [what |-> "open failed", dev |-> toString(dev)]

\* "[RPCManager] failed to write to serial device: <dev>"
WriteFailedMsg(dev) == [what |-> "write failed", dev |-> toString(dev)]

(* ----------------------- RpcMultiplexer: values ------------------------ *)
\* the Devices commands are dispatched to (the tables are per Device)
MuxDevices == {"PSU", "PG"}

\* correlation tokens, allocated in increasing order
Tokens == 1..MaxTokens

\* absolute deadlines
Times == 0..MaxTime

\* the status a Response carries
Statuses == {"Ok", "Error", "Nack"}

\* what a waiter is signalled with
Signal(kind, status) == [kind |-> kind, status |-> status]

Response(st) == Signal("Response", st)

Timeout == Signal("Timeout", "none")

Cancelled == Signal("Cancelled", "none")

SerialIo == Signal("SerialIo", "none")

ChannelUnavailable == Signal("ChannelUnavailable", "none")

\* InFlightEntry: (Device, token, deadline); the Device is the table's key
InFlightEntry(tok, deadline) == [token |-> tok, deadline |-> deadline]

(* ----------------------- ParameterStore: values ------------------------ *)
\* enum class Parameter { Temp, FlowRate, Voltage, ... }: the keys used here
Keys == {"Temp", "Voltage"}

\* floats, as small integers
Values == 0 .. MaxValue

\* the declared bounds of a key (parameter defaults with bounds, from the
\* configuration)
BoundsOf(k) == IF k = "Temp" THEN [lo |-> 0, hi |-> 1] ELSE [lo |-> 1, hi |-> 1]

InBounds(k, v) == v \in Values /\ BoundsOf(k).lo <= v /\ v <= BoundsOf(k).hi

\* the UI thread writes, the protocol thread reads
StoreThreads == {"ui", "proto"}

\* a thread outside any ParameterStore call.  adm: for a get in progress, the
\* values a linearizable store may return
IdleStoreThread ==
  [pc |-> "idle", op |-> "none", key |-> "none", val |-> 0,
   result |-> "none", adm |-> {}]

\* values_ has no entry for the key
Missing == [tag |-> "missing", v |-> 0]

\* values_ holds v under the key
Stored(v) == [tag |-> "value", v |-> v]

\* the entry while a write to it is under way: a value no set passed
Busy == [tag |-> "busy", v |-> MaxValue + 1]

\* what get returns for a stored entry: 0.f if the key is missing
ValueOf(e) == IF e.tag = "missing" THEN 0 ELSE e.v

\* RingBuffer: the fixed capacity, a power of two
RingCapacity == 2

\* a slot never written, and a slot whose write is under way
EmptySlot == 0
PartialSlot == -1

\* the producer outside try_push
IdleProducer == [pc |-> "idle", val |-> 0, seen |-> 0, ret |-> "none"]

\* the consumer outside try_pop
IdleConsumer == [pc |-> "idle", seen |-> 0, val |-> EmptySlot]

(* -------------------------------- Init --------------------------------- *)
InitBuild(b) ==
  /\ fdTable = [fd \in Fds |-> NoFile]
  /\ wire = [p \in Paths |-> <<>>]
  /\ rxq = <<>>
  /\ hup = FALSE
  /\ blocked = FALSE
  /\ chan = NewChannel
  /\ tmp = NewChannel
  /\ channels_ = <<>>
  /\ connected_ = FALSE
  /\ conn = IdleConn
  /\ thr = [c \in Callers |-> IdleCaller]
  /\ ndebug = b
  /\ aborted = FALSE
  /\ received = <<>>
  /\ lines = <<>>
  /\ chanReopened = FALSE
  /\ eofClosed = FALSE
  /\ stale = 0
  /\ channelState = [d \in Devices |-> "up"]
  /\ inFlight = [d \in Devices |-> {}]
  /\ nextToken = 1
  /\ now = 0
  /\ terminal = [t \in Tokens |-> <<>>]
  /\ escalation_ = FALSE
  /\ seen_ = <<>>
  /\ notified = <<>>
  /\ escalated = <<>>
  /\ values_ = [k \in Keys |-> Missing]
  /\ mtx_ = "free"
  /\ sthr = [t \in StoreThreads |-> IdleStoreThread]
  /\ committed = [k \in Keys |-> Missing]
  /\ currentState_ = "BOOT"
  /\ protocol_ = 0
  /\ fsmLog = << [st |-> "BOOT", by |-> "ctor"] >>
  /\ buffer_ = [i \in 0 .. (RingCapacity - 1) |-> EmptySlot]
  /\ head_ = 0
  /\ tail_ = 0
  /\ dropped_ = 0
  /\ prod = IdleProducer
  /\ cons = IdleConsumer
  /\ pushed = << >>
  /\ popped = << >>
  /\ btnLevel = FALSE
  /\ btnNow = 0
  /\ presed_ = FALSE
  /\ pressTick_ = 0
  /\ holds = 0
  /\ presses = 0
  /\ lastPress = NoPress
  /\ running_ = FALSE
  /\ logQueue = << >>
  /\ events_dropped = 0
  /\ storage = << >>
  /\ logged = 0

\* the arm-release build, the one that is deployed (NDEBUG defined)
Init == InitBuild(TRUE)

\* either build preset: host-debug or arm-release
InitAnyBuild == \E b \in BOOLEAN : InitBuild(b)

(* ------------------------ RPCManager::connect -------------------------- *)
\* a connect() whose early return is missing
AlreadyConnected_never(c) == FALSE

\* if (connected_) return;
AlreadyConnected(c) == c

\* channels_.clear(): every stored SerialChannel is destroyed, and each
\* destructor calls close() on the fd_ it holds
ClearChannels(chs, tbl) ==
  [fd \in Fds |->
     IF \E d \in DOMAIN chs : chs[d].fd_ = fd THEN NoFile ELSE tbl[fd]]

\* connect() is entered: the early return, or channels_.clear() and the loop
ConnectCall ==
  /\ ~aborted
  /\ conn.pc = "idle"
  /\ \A t \in Threads : thr[t].pc = "idle"
  /\ IF AlreadyConnected(connected_)
       THEN /\ conn' = [IdleConn EXCEPT !.pc = "ret", !.result = "ok"]
            /\ UNCHANGED << fdTable, channels_ >>
       ELSE /\ fdTable' = ClearChannels(channels_, fdTable)
            /\ channels_' = <<>>
            /\ conn' = [IdleConn EXCEPT !.pc = "open"]
  /\ UNCHANGED << wire, rxq, hup, blocked, tmp, connected_, thr, ndebug, compVars, muxVars, aborted,
                  chanVars >>

\* io::SerialChannel ch; if (!ch.open(path, kDefaultBaud)) { notify; throw }
ConnectOpen ==
  /\ ~aborted
  /\ conn.pc = "open"
  /\ \E outcome \in OpenOutcomes(fdTable) :
       LET sym == symlinks_[conn.idx]
           r == open(NewChannel, sym.path, "ch", outcome, fdTable)
       IN  /\ fdTable' = r.tbl
           /\ IF r.ret
                THEN /\ tmp' = r.ch
                     /\ conn' = [conn EXCEPT !.pc = "emplace"]
                ELSE \* ch is destroyed by the throw; it holds no descriptor
                     /\ tmp' = NewChannel
                     /\ conn' = [conn EXCEPT
                          !.pc = "ret", !.result = "error",
                          !.err = OpenFailedMsg(sym.dev),
                          !.notes = Append(conn.notes, OpenFailedMsg(sym.dev))]
  /\ UNCHANGED << wire, rxq, hup, blocked, channels_, connected_, thr, ndebug, compVars, muxVars, aborted,
                  chanVars >>

\* channels_.emplace(dev, std::move(ch))
ConnectEmplace ==
  /\ ~aborted
  /\ conn.pc = "emplace"
  /\ LET dev == symlinks_[conn.idx].dev
     IN  channels_' =
           [d \in DOMAIN channels_ \cup {dev} |->
              IF d = dev THEN MoveTarget(tmp) ELSE channels_[d]]
  /\ tmp' = MoveSource(tmp)
  /\ conn' = [conn EXCEPT !.pc = "dtor"]
  /\ UNCHANGED << osVars, connected_, thr, ndebug, compVars, muxVars, aborted, chanVars >>

\* end of the loop body: ch goes out of scope, ~SerialChannel() { close(); };
\* after the last device, connected_ = true
ConnectDtor ==
  /\ ~aborted
  /\ conn.pc = "dtor"
  /\ LET c == close(tmp, fdTable)
     IN  /\ fdTable' = c.tbl
         /\ tmp' = NewChannel
  /\ IF conn.idx < Len(symlinks_)
       THEN /\ conn' = [conn EXCEPT !.pc = "open", !.idx = conn.idx + 1]
            /\ UNCHANGED connected_
       ELSE /\ conn' = [conn EXCEPT !.pc = "ret", !.result = "ok"]
            /\ connected_' = TRUE
  /\ UNCHANGED << wire, rxq, hup, blocked, channels_, thr, ndebug, compVars, muxVars, aborted, chanVars >>

\* connect()'s caller has seen how the call ended
ConnectReturn ==
  /\ ~aborted
  /\ conn.pc = "ret"
  /\ conn' = IdleConn
  /\ UNCHANGED << osVars, tmp, channels_, connected_, thr, ndebug, compVars, muxVars, aborted,
                  chanVars >>

(* ---------------------- SerialChannel::writeLine ----------------------- *)
\* an Advance where a short write is counted as a whole one
Advance_whole(total, written, size) == size

\* total += written
Advance(total, written, size) == total + written

\* writeLine returns to caller c: a sendCommand thread reports a failure to the
\* ErrorMonitor and throws, the io thread just gets the bool
WriteReturn(c, ok, t) ==
  thr' = [thr EXCEPT ![c] =
    [t EXCEPT !.pc = "ret",
              !.result = IF c = IoThread
                           THEN (IF ok THEN "true" ELSE "false")
                           ELSE (IF ok THEN "ok" ELSE "write failed"),
              !.notes = IF c \in Threads /\ ~ok
                          THEN Append(t.notes, WriteFailedMsg(t.dev))
                          ELSE t.notes]]

\* one turn of writeLine's loop: ::write(fd_, out.data() + total, out.size() - total)
WriteStep(c) ==
  /\ ~aborted
  /\ thr[c].pc = "write"
  /\ LET fd == TargetFd(c)
         t == thr[c]
         out == FrameOf(t.line)
         rem == Len(out) - t.total
     IN
       \/ \* written > 0
          /\ IsOpen(fdTable, fd)
          /\ ~blocked
          /\ \E k \in ChunkSizes(rem) :
               LET path == fdTable[fd].path
                   bytes == SubSeq(out, t.total + 1, t.total + k)
                   total2 == Advance(t.total, k, Len(out))
                   t2 == [t EXCEPT !.total = total2, !.put = t.put \o bytes,
                                   !.dests = t.dests \cup {path}]
               IN  /\ wire' = [wire EXCEPT ![path] = wire[path] \o bytes]
                   /\ IF total2 < Len(out)
                        THEN thr' = [thr EXCEPT ![c] = t2]
                        ELSE WriteReturn(c, TRUE, t2)
       \/ \* written == -1 with EINTR or EAGAIN/EWOULDBLOCK: continue
          /\ IsOpen(fdTable, fd)
          /\ UNCHANGED << wire, thr >>
       \/ \* any other result (EBADF on a descriptor that is not open, EIO, 0)
          /\ ~(blocked /\ IsOpen(fdTable, fd))
          /\ WriteReturn(c, FALSE, t)
          /\ UNCHANGED wire
  /\ UNCHANGED << fdTable, rxq, hup, blocked, mgrVars, ndebug, compVars, muxVars, aborted, chanVars >>

\* the caller of sendCommand or writeLine has seen how the call ended
CallReturn(c) ==
  /\ ~aborted
  /\ thr[c].pc = "ret"
  /\ thr' = [thr EXCEPT ![c] = IdleCaller]
  /\ UNCHANGED << osVars, mgrVars, ndebug, compVars, muxVars, aborted, chanVars >>

(* ---------------------- RPCManager::sendCommand ------------------------ *)
\* assert(cmdStr.size() <= 256)
FrameAllowed(size) == size <= kMaxFrame

\* a sendCommand that does not test connected_
SendAllowed_always(c) == TRUE

\* if (!connected_) throw std::runtime_error("... not connected")
SendAllowed(c) == c

\* sendCommand(dev, cmd) up to the first turn of writeLine's loop
SendCall(c, dev, payload) ==
  /\ ~aborted
  /\ thr[c].pc = "idle"
  /\ conn.pc = "idle"
  /\ WireLoad < MaxWire
  /\ LET cmdStr == toWire(payload)
         t == [IdleCaller EXCEPT !.dev = dev, !.cmd = payload, !.line = cmdStr]
     IN
       IF ~SendAllowed(connected_)
         THEN /\ thr' = [thr EXCEPT ![c] =
                   [t EXCEPT !.pc = "ret", !.result = "not connected"]]
              /\ UNCHANGED aborted
       ELSE IF dev \notin DOMAIN channels_
         THEN /\ thr' = [thr EXCEPT ![c] =
                   [t EXCEPT !.pc = "ret", !.result = "unknown device"]]
              /\ UNCHANGED aborted
       ELSE IF ~ndebug /\ ~FrameAllowed(Len(cmdStr))
         THEN \* the assertion fails: abort()
              /\ aborted' = TRUE
              /\ thr' = [thr EXCEPT ![c] = [t EXCEPT !.result = "aborted"]]
       ELSE IF channels_[dev].fd_ < 0
         THEN \* writeLine: if (fd_ < 0) return false
              /\ WriteReturn(c, FALSE, t)
              /\ UNCHANGED aborted
       ELSE /\ thr' = [thr EXCEPT ![c] = [t EXCEPT !.pc = "write"]]
            /\ UNCHANGED aborted
  /\ UNCHANGED << osVars, mgrVars, ndebug, compVars, muxVars, chanVars >>

(* ------------------- the stand-alone channel's owner ------------------- *)
\* chan.open(slaveName, B115200)
ChanOpen ==
  /\ ~aborted
  /\ thr[IoThread].pc = "idle"
  /\ \E outcome \in OpenOutcomes(fdTable) :
       LET r == open(chan, ChanPath, "chan", outcome, fdTable)
       IN  /\ chan' = r.ch
           /\ fdTable' = r.tbl
           /\ eofClosed' = (eofClosed /\ ~r.ret)
  /\ chanReopened' = (chanReopened \/ chan.fd_ >= 0)
  /\ UNCHANGED << wire, rxq, hup, blocked, mgrVars, thr, ndebug, compVars, muxVars,
                  aborted, received, lines, stale >>

\* chan.close(), which is also all ~SerialChannel() does
ChanClose ==
  /\ ~aborted
  /\ thr[IoThread].pc = "idle"
  /\ LET c == close(chan, fdTable)
     IN  /\ chan' = c.ch
         /\ fdTable' = c.tbl
  /\ stale' = Len(chan.rx_buffer_)
  /\ UNCHANGED << wire, rxq, hup, blocked, mgrVars, thr, ndebug, compVars, muxVars,
                  aborted, received, lines, chanReopened, eofClosed >>

\* chan.writeLine(line) up to the first turn of its loop
ChanWriteCall(line) ==
  /\ ~aborted
  /\ thr[IoThread].pc = "idle"
  /\ WireLoad < MaxWire
  /\ LET t == [IdleCaller EXCEPT !.dev = "chan", !.line = line]
     IN  IF chan.fd_ < 0
           THEN thr' = [thr EXCEPT ![IoThread] =
                  [t EXCEPT !.pc = "ret", !.result = "false"]]
           ELSE thr' = [thr EXCEPT ![IoThread] = [t EXCEPT !.pc = "write"]]
  /\ UNCHANGED << osVars, mgrVars, ndebug, compVars, muxVars, aborted, chanVars >>

(* ----------------------- SerialChannel::readLine ----------------------- *)
\* an ExtractLine whose erase(0, pos + 1) leaves the LF in the buffer
ExtractLine_short(buf) ==
  LET p == FindCRLF(buf) IN [line |-> Take(buf, p - 1), rest |-> Drop(buf, p)]

\* line = rx_buffer_.substr(0, pos); rx_buffer_.erase(0, pos + 2)
ExtractLine(buf) ==
  LET p == FindCRLF(buf) IN [line |-> Take(buf, p - 1), rest |-> Drop(buf, p + 1)]

\* a loop test that lets the deadline itself pass
LoopEntered_le(elapsed, timeout) == elapsed <= timeout

\* while (steady_clock::now() < deadline), deadline being now() + timeout at
\* the call: the time elapsed since then is less than the timeout
LoopEntered(elapsed, timeout) == elapsed < timeout

\* the timeouts readLine is called with, in ticks: none, or some
ReadTimeouts == {0, 1}

\* an end-of-file that leaves the channel as it is
AtEof_open(ch, tbl) == [ch |-> ch, tbl |-> tbl]

\* else if (n == 0) { close(); return std::nullopt; }
AtEof(ch, tbl) == close(ch, tbl)

\* chan.readLine(timeout) up to the first turn of its loop; no time has
\* passed when the loop test is first made
ChanReadCall(timeout) ==
  /\ ~aborted
  /\ thr[IoThread].pc = "idle"
  /\ LET t == [IdleCaller EXCEPT !.dev = "chan", !.timeout = << timeout >>]
     IN  IF chan.fd_ < 0 \/ ~LoopEntered(0, timeout)
           THEN thr' = [thr EXCEPT ![IoThread] =
                  [t EXCEPT !.pc = "ret", !.result = "nullopt"]]
           ELSE thr' = [thr EXCEPT ![IoThread] = [t EXCEPT !.pc = "read"]]
  /\ UNCHANGED << osVars, mgrVars, ndebug, compVars, muxVars, aborted, chanVars >>

\* readLine returns std::nullopt
ReadNothing ==
  thr' = [thr EXCEPT ![IoThread] =
    [IdleCaller EXCEPT !.dev = "chan", !.pc = "ret", !.result = "nullopt"]]

\* one turn of readLine's loop: the deadline test, ::poll, ::read, the line test
ChanReadStep ==
  /\ ~aborted
  /\ thr[IoThread].pc = "read"
  /\ \/ \* steady_clock::now() >= deadline, or poll's rc == 0, or poll or
        \* read fails with an errno that is not retried
        /\ ReadNothing
        /\ UNCHANGED << fdTable, rxq, chan, received, lines, eofClosed, stale >>
     \/ \* poll: EINTR; read: EINTR/EAGAIN; or revents without POLLIN: continue
        /\ UNCHANGED << thr, fdTable, rxq, chan, received, lines, eofClosed,
                        stale >>
     \/ \* read returns n > 0 bytes
        /\ IsOpen(fdTable, chan.fd_)
        /\ rxq # <<>>
        /\ \E k \in ChunkSizes(Min(Len(rxq), kReadBuf)) :
             LET buf == chan.rx_buffer_ \o Take(rxq, k)
             IN  /\ rxq' = Drop(rxq, k)
                 /\ received' = received \o Take(rxq, k)
                 /\ stale' = IF FindCRLF(buf) # 0
                                THEN Max(stale - (FindCRLF(buf) + 1), 0)
                                ELSE stale
                 /\ IF FindCRLF(buf) # 0
                      THEN /\ chan' = [chan EXCEPT
                                         !.rx_buffer_ = ExtractLine(buf).rest]
                           /\ lines' = Append(lines, ExtractLine(buf).line)
                           /\ thr' = [thr EXCEPT ![IoThread] =
                                [IdleCaller EXCEPT
                                   !.dev = "chan", !.pc = "ret",
                                   !.result = "line",
                                   !.line = ExtractLine(buf).line,
                                   !.old = Min(stale, FindCRLF(buf) + 1)]]
                      ELSE /\ chan' = [chan EXCEPT !.rx_buffer_ = buf]
                           /\ UNCHANGED << thr, lines >>
        /\ UNCHANGED << fdTable, eofClosed >>
     \/ \* read returns 0: EOF / disconnect
        /\ IsOpen(fdTable, chan.fd_)
        /\ rxq = <<>>
        /\ hup
        /\ LET c == AtEof(chan, fdTable)
           IN  /\ chan' = c.ch
               /\ fdTable' = c.tbl
        /\ eofClosed' = TRUE
        /\ stale' = Len(chan.rx_buffer_)
        /\ ReadNothing
        /\ UNCHANGED << rxq, received, lines >>
  /\ UNCHANGED << wire, hup, blocked, mgrVars, ndebug, compVars, muxVars, aborted,
                  chanReopened >>

(* ------------------------- the device on ChanPath ---------------------- *)
\* the device sends one byte
DeviceSend(b) ==
  /\ ~aborted
  /\ ~hup
  /\ Len(received) + Len(rxq) < MaxRx
  /\ rxq' = Append(rxq, b)
  /\ UNCHANGED << fdTable, wire, hup, blocked, mgrVars, thr, ndebug, compVars, muxVars, aborted, chanVars >>

\* the tty's output queue fills up and the peer stops draining it: from
\* now on every ::write to an open tty fails with EAGAIN/EWOULDBLOCK
DeviceBlock ==
  /\ ~aborted
  /\ ~blocked
  /\ blocked' = TRUE
  /\ UNCHANGED << fdTable, wire, rxq, hup, mgrVars, thr, ndebug, compVars, muxVars,
                  aborted, chanVars >>

\* the cable is pulled
DeviceHangup ==
  /\ ~aborted
  /\ ~hup
  /\ hup' = TRUE
  /\ UNCHANGED << fdTable, wire, rxq, blocked, mgrVars, thr, ndebug, compVars, muxVars, aborted, chanVars >>

\* the cable is plugged back in
DevicePlug ==
  /\ ~aborted
  /\ hup
  /\ hup' = FALSE
  /\ UNCHANGED << fdTable, wire, rxq, blocked, mgrVars, thr, ndebug, compVars, muxVars, aborted, chanVars >>

(* ---------------------------- ErrorMonitor ----------------------------- *)
\* the failure messages subsystems report
Messages == {"m1", "m2"}

\* the monotonic clock advances by one tick
ClockTick ==
  /\ now < MaxTime
  /\ now' = now + 1
  /\ UNCHANGED << serialVars, muxTables, compVars >>

\* registerEscalation(cb): keeps the handler
registerEscalation ==
  /\ ~escalation_
  /\ escalation_' = TRUE
  /\ UNCHANGED << seen_, notified, escalated >>
  /\ UNCHANGED << serialVars, muxVars, auxVars, storeVars, fsmVars, ringVars >>

\* ErrorMonitor::notifyFailure(const std::string&) {}: the body is empty;
\* seen_ stays as it is and the handler is not called
notifyFailure_body(esc, seen, message) == [seen |-> seen, calls |-> << >>]

\* a subsystem thread calls notifyFailure(message)
notifyFailure(message) ==
  /\ Len(notified) < MaxNotes
  /\ notified' =
       Append(notified, [msg |-> message, at |-> now, reg |-> escalation_])
  /\ LET r == notifyFailure_body(escalation_, seen_, message)
     IN  /\ seen_' = r.seen
         /\ escalated' = escalated \o r.calls
  /\ UNCHANGED escalation_
  /\ UNCHANGED << serialVars, muxVars, auxVars, storeVars, fsmVars, ringVars >>

(* --------------------------- ParameterStore ---------------------------- *)
\* a lock that excludes nobody
CanLock_always(m) == TRUE

\* std::lock_guard on mtx_: acquired only when no thread holds it
CanLock(m) == m = "free"

\* set(p, value) is called by the UI thread
StoreSetCall(p, v) ==
  /\ sthr["ui"].pc = "idle"
  /\ sthr' = [t \in StoreThreads |->
       IF t = "ui"
         THEN [IdleStoreThread EXCEPT
                 !.pc = "lock", !.op = "set", !.key = p, !.val = v]
         ELSE IF sthr[t].op = "get" /\ sthr[t].key = p /\ sthr[t].pc # "ret"
                THEN [sthr[t] EXCEPT !.adm = @ \cup {v}]
                ELSE sthr[t]]
  /\ UNCHANGED << values_, mtx_, committed >>
  /\ UNCHANGED << serialVars, muxVars, auxVars, monVars, fsmVars, ringVars >>

\* the values a get(p) called now may return: the value of the last set that
\* returned (0.f while the key is missing) or that of a set in progress
Admissible(p) ==
  {ValueOf(committed[p])}
    \cup {sthr[t].val : t \in {u \in StoreThreads :
                               /\ sthr[u].op = "set"
                               /\ sthr[u].key = p
                               /\ sthr[u].pc # "ret"}}

\* get(p) is called
StoreGetCall(t, p) ==
  /\ sthr[t].pc = "idle"
  /\ sthr' = [sthr EXCEPT ![t] =
       [IdleStoreThread EXCEPT
          !.pc = "lock", !.op = "get", !.key = p, !.adm = Admissible(p)]]
  /\ UNCHANGED << values_, mtx_, committed >>
  /\ UNCHANGED << serialVars, muxVars, auxVars, monVars, fsmVars, ringVars >>

\* snapshot() is called
StoreSnapshotCall(t) ==
  /\ sthr[t].pc = "idle"
  /\ sthr' = [sthr EXCEPT ![t] =
       [IdleStoreThread EXCEPT !.pc = "lock", !.op = "snapshot"]]
  /\ UNCHANGED << values_, mtx_, committed >>
  /\ UNCHANGED << serialVars, muxVars, auxVars, monVars, fsmVars, ringVars >>

\* the caller takes mtx_
StoreLock(t) ==
  /\ sthr[t].pc = "lock"
  /\ CanLock(mtx_)
  /\ mtx_' = t
  /\ sthr' = [sthr EXCEPT ![t].pc = "locked"]
  /\ UNCHANGED << values_, committed >>
  /\ UNCHANGED << serialVars, muxVars, auxVars, monVars, fsmVars, ringVars >>

\* set, under the lock: values_[p] = value; the map entry is in an
\* intermediate state while it is being written
StoreSetWrite(t) ==
  /\ sthr[t].op = "set"
  /\ \/ /\ sthr[t].pc = "locked"
        /\ values_' = [values_ EXCEPT ![sthr[t].key] = Busy]
        /\ sthr' = [sthr EXCEPT ![t].pc = "writing"]
     \/ /\ sthr[t].pc = "writing"
        /\ values_' = [values_ EXCEPT ![sthr[t].key] = Stored(sthr[t].val)]
        /\ sthr' = [sthr EXCEPT ![t].pc = "unlock"]
  /\ UNCHANGED << mtx_, committed >>
  /\ UNCHANGED << serialVars, muxVars, auxVars, monVars, fsmVars, ringVars >>

\* get, under the lock: the stored value, 0.f if the key is missing
StoreGetRead(t) ==
  /\ sthr[t].op = "get"
  /\ sthr[t].pc = "locked"
  /\ sthr' = [sthr EXCEPT ![t].pc = "unlock",
                           ![t].result = ValueOf(values_[sthr[t].key])]
  /\ UNCHANGED << values_, mtx_, committed >>
  /\ UNCHANGED << serialVars, muxVars, auxVars, monVars, fsmVars, ringVars >>

\* snapshot, under the lock: a copy of values_
StoreSnapshotRead(t) ==
  /\ sthr[t].op = "snapshot"
  /\ sthr[t].pc = "locked"
  /\ sthr' = [sthr EXCEPT ![t].pc = "unlock", ![t].result = values_]
  /\ UNCHANGED << values_, mtx_, committed >>
  /\ UNCHANGED << serialVars, muxVars, auxVars, monVars, fsmVars, ringVars >>

\* the lock is released and the call returns
StoreUnlock(t) ==
  /\ sthr[t].pc = "unlock"
  /\ mtx_' = IF mtx_ = t THEN "free" ELSE mtx_
  /\ sthr' = [sthr EXCEPT ![t].pc = "ret"]
  /\ committed' = IF sthr[t].op = "set"
                     THEN [committed EXCEPT ![sthr[t].key] = Stored(sthr[t].val)]
                     ELSE committed
  /\ UNCHANGED values_
  /\ UNCHANGED << serialVars, muxVars, auxVars, monVars, fsmVars, ringVars >>

\* the caller has taken the result
StoreReturn(t) ==
  /\ sthr[t].pc = "ret"
  /\ sthr' = [sthr EXCEPT ![t] = IdleStoreThread]
  /\ UNCHANGED << values_, mtx_, committed >>
  /\ UNCHANGED << serialVars, muxVars, auxVars, monVars, fsmVars, ringVars >>

(* ------------------------------ RingBuffer ----------------------------- *)
\* what the consumer observes of the write cursor when the slot write is
\* not ordered before the cursor update
VisibleHead_relaxed(h, pc) == IF pc \in {"write", "writing"} THEN h + 1 ELSE h

\* what the consumer observes of the write cursor: the published value
VisibleHead(h, pc) == h

\* a full test that is off by one
is_full_late(h, t) == h - t > RingCapacity

\* is_full(): the cursors are capacity apart
is_full(h, t) == h - t >= RingCapacity

\* the queued elements, oldest first
Queue == [i \in 1 .. (head_ - tail_) |-> buffer_[(tail_ + i - 1) % RingCapacity]]

\* try_push(value) is called by the producer; each call brings a new value
PushCall ==
  /\ prod.pc = "idle"
  /\ Len(pushed) + dropped_ < MaxPush
  /\ prod' = [pc |-> "load", val |-> Len(pushed) + dropped_ + 1,
               seen |-> 0, ret |-> "none"]
  /\ UNCHANGED << buffer_, head_, tail_, dropped_, cons, pushed, popped >>
  /\ UNCHANGED << serialVars, muxVars, auxVars, monVars, storeVars, fsmVars >>

\* try_push: load the read cursor
PushLoad ==
  /\ prod.pc = "load"
  /\ prod' = [prod EXCEPT !.pc = "check", !.seen = tail_]
  /\ UNCHANGED << buffer_, head_, tail_, dropped_, cons, pushed, popped >>
  /\ UNCHANGED << serialVars, muxVars, auxVars, monVars, storeVars, fsmVars >>

\* try_push: when full, DropNewest rejects the push and counts it;
\* otherwise the value is accepted
PushCheck ==
  /\ prod.pc = "check"
  /\ IF is_full(head_, prod.seen)
       THEN /\ dropped_' = dropped_ + 1
            /\ prod' = [prod EXCEPT !.pc = "idle", !.ret = "false"]
            /\ pushed' = pushed
       ELSE /\ dropped_' = dropped_
            /\ prod' = [prod EXCEPT !.pc = "write"]
            /\ pushed' = Append(pushed, prod.val)
  /\ UNCHANGED << buffer_, head_, tail_, cons, popped >>
  /\ UNCHANGED << serialVars, muxVars, auxVars, monVars, storeVars, fsmVars >>

\* try_push: the value is written into the slot at the write cursor, which
\* takes two steps
PushWrite ==
  /\ prod.pc \in {"write", "writing"}
  /\ IF prod.pc = "write"
       THEN /\ buffer_' = [buffer_ EXCEPT ![head_ % RingCapacity] = PartialSlot]
            /\ prod' = [prod EXCEPT !.pc = "writing"]
       ELSE /\ buffer_' = [buffer_ EXCEPT ![head_ % RingCapacity] = prod.val]
            /\ prod' = [prod EXCEPT !.pc = "publish"]
  /\ UNCHANGED << head_, tail_, dropped_, cons, pushed, popped >>
  /\ UNCHANGED << serialVars, muxVars, auxVars, monVars, storeVars, fsmVars >>

\* try_push: the write cursor is advanced and the call returns true
PushPublish ==
  /\ prod.pc = "publish"
  /\ head_' = head_ + 1
  /\ prod' = [prod EXCEPT !.pc = "idle", !.ret = "true"]
  /\ UNCHANGED << buffer_, tail_, dropped_, cons, pushed, popped >>
  /\ UNCHANGED << serialVars, muxVars, auxVars, monVars, storeVars, fsmVars >>

\* try_pop() is called by the consumer and loads the write cursor
PopCall ==
  /\ cons.pc = "idle"
  /\ Len(popped) < MaxPush
  /\ cons' = [pc |-> "check", seen |-> VisibleHead(head_, prod.pc),
               val |-> EmptySlot]
  /\ UNCHANGED << buffer_, head_, tail_, dropped_, prod, pushed, popped >>
  /\ UNCHANGED << serialVars, muxVars, auxVars, monVars, storeVars, fsmVars >>

\* try_pop: none when empty, otherwise the slot at the read cursor is read
PopCheck ==
  /\ cons.pc = "check"
  /\ IF cons.seen = tail_
       THEN cons' = [cons EXCEPT !.pc = "idle", !.val = EmptySlot]
       ELSE cons' = [cons EXCEPT !.pc = "advance",
                                 !.val = buffer_[tail_ % RingCapacity]]
  /\ UNCHANGED << buffer_, head_, tail_, dropped_, prod, pushed, popped >>
  /\ UNCHANGED << serialVars, muxVars, auxVars, monVars, storeVars, fsmVars >>

\* try_pop: the read cursor is advanced and the value returned
PopAdvance ==
  /\ cons.pc = "advance"
  /\ tail_' = tail_ + 1
  /\ popped' = Append(popped, cons.val)
  /\ cons' = [cons EXCEPT !.pc = "idle"]
  /\ UNCHANGED << buffer_, head_, dropped_, prod, pushed >>
  /\ UNCHANGED << serialVars, muxVars, auxVars, monVars, storeVars, fsmVars >>

(* ------------------------------ ButtonGPIO ----------------------------- *)
\* a classification that takes a hold of exactly the threshold for short
Classify_late(d) ==
  IF d > longThreshold_ THEN "LongPress"
  ELSE IF d >= kShortPress THEN "ShortPress"
  ELSE "none"

\* Emits ShortPress after >= 50 ms but < 1 s, LongPress after >= 1 s hold
Classify(d) ==
  IF d >= longThreshold_ THEN "LongPress"
  ELSE IF d >= kShortPress THEN "ShortPress"
  ELSE "none"

\* the times between two calls of poll, in ms
PollSteps == {25, 50, 950}

\* emitPress(ev) at the end of a hold of d ms
emitPress(d, ev) == [d |-> d, ev |-> ev]

\* the operator pushes the button
ButtonPush ==
  /\ ~btnLevel
  /\ ~presed_
  /\ holds < MaxHolds
  /\ btnLevel' = TRUE
  /\ UNCHANGED << btnNow, presed_, pressTick_, holds, presses, lastPress >>
  /\ UNCHANGED << serialVars, muxVars, monVars, storeVars, fsmVars, ringVars, logVars >>

\* the operator lets go of the button
ButtonRelease ==
  /\ btnLevel
  /\ btnLevel' = FALSE
  /\ UNCHANGED << btnNow, presed_, pressTick_, holds, presses, lastPress >>
  /\ UNCHANGED << serialVars, muxVars, monVars, storeVars, fsmVars, ringVars, logVars >>

\* poll(now), dt after the call before: when the line has gone down the
\* time is kept in pressTick_; when it has gone up the hold is over and is
\* classified by its duration, and emitPress is called unless it was too short
ButtonPoll(dt) ==
  /\ btnNow + dt <= MaxClock
  /\ btnNow' = btnNow + dt
  /\ IF btnLevel /\ ~presed_
       THEN /\ presed_' = TRUE
            /\ pressTick_' = btnNow'
            /\ UNCHANGED << holds, presses, lastPress >>
     ELSE IF ~btnLevel /\ presed_
       THEN /\ presed_' = FALSE
            /\ holds' = holds + 1
            /\ IF Classify(btnNow' - pressTick_) = "none"
                 THEN UNCHANGED << presses, lastPress >>
                 ELSE /\ presses' = presses + 1
                      /\ lastPress' = emitPress(btnNow' - pressTick_,
                                                Classify(btnNow' - pressTick_))
            /\ UNCHANGED pressTick_
     ELSE UNCHANGED << presed_, pressTick_, holds, presses, lastPress >>
  /\ UNCHANGED btnLevel
  /\ UNCHANGED << serialVars, muxVars, monVars, storeVars, fsmVars, ringVars, logVars >>

(* -------------------------------- Logger ------------------------------- *)
\* the CSV line of an event; the caller includes the trailing newline
toCsv(e) == [ev |-> e, nl |-> TRUE]

\* FileLogger::write(csv): the body is empty, the file is left as it was
FileLogger_write(file, csv) == file

\* Logger::startNewRun(): open the file and launch the worker thread
startNewRun ==
  /\ ~running_
  /\ logQueue = << >>
  /\ running_' = TRUE
  /\ UNCHANGED << logQueue, events_dropped, storage, logged >>
  /\ UNCHANGED << serialVars, muxVars, monVars, storeVars, fsmVars, ringVars, btnVars >>

\* Logger::log(event): enqueue without blocking; when the ring is full the
\* push is refused and the event is counted in events_dropped
log ==
  /\ running_
  /\ logged < MaxEvents
  /\ logged' = logged + 1
  /\ IF Len(logQueue) < RingCapacity
       THEN /\ logQueue' = Append(logQueue, logged + 1)
            /\ UNCHANGED events_dropped
       ELSE /\ events_dropped' = events_dropped + 1
            /\ UNCHANGED logQueue
  /\ UNCHANGED << running_, storage >>
  /\ UNCHANGED << serialVars, muxVars, monVars, storeVars, fsmVars, ringVars, btnVars >>

\* one turn of the worker: pop an event and hand its line to the file; after
\* finishRun the worker drains what is left before it is joined
LoggerWorker ==
  /\ logQueue # << >>
  /\ logQueue' = Tail(logQueue)
  /\ storage' = FileLogger_write(storage, toCsv(Head(logQueue)))
  /\ UNCHANGED << running_, events_dropped, logged >>
  /\ UNCHANGED << serialVars, muxVars, monVars, storeVars, fsmVars, ringVars, btnVars >>

\* Logger::finishRun(): flush and join the worker thread
finishRun ==
  /\ running_
  /\ running_' = FALSE
  /\ UNCHANGED << logQueue, events_dropped, storage, logged >>
  /\ UNCHANGED << serialVars, muxVars, monVars, storeVars, fsmVars, ringVars, btnVars >>

(* -------------------------- SystemCoordinator -------------------------- *)
\* enum class State { BOOT, INIT, IDLE, RUNNING, FINISHED, ERROR }
State == {"BOOT", "INIT", "IDLE", "RUNNING", "FINISHED", "ERROR"}

\* SystemState: the enum's states and Aborting
SystemState == State \cup {"ABORTING"}

\* transitionTo(next): a state change is logged with the step that made it
transitionTo(next, by) ==
  /\ currentState_' = next
  /\ fsmLog' = IF next = currentState_
                 THEN fsmLog
                 ELSE Append(fsmLog, [st |-> next, by |-> by])

\* the coordinator may still change state in this run
CanStep == Len(fsmLog) < MaxSteps

\* initialize(): Boot -> Init, then Init -> Idle with all subsystems healthy;
\* on any failure -> Error
initialize(ok) ==
  /\ CanStep
  /\ currentState_ \in {"BOOT", "INIT"}
  /\ IF ~ok THEN transitionTo("ERROR", "initialize")
     ELSE IF currentState_ = "BOOT" THEN transitionTo("INIT", "initialize")
     ELSE transitionTo("IDLE", "initialize")
  /\ UNCHANGED protocol_
  /\ UNCHANGED << serialVars, muxVars, auxVars, monVars, storeVars, ringVars >>

\* handleStart(): Idle -> Running; the ProtocolEngine is instantiated
handleStart ==
  /\ CanStep
  /\ currentState_ = "IDLE"
  /\ protocol_' = protocol_ + 1
  /\ transitionTo("RUNNING", "handleStart")
  /\ UNCHANGED << serialVars, muxVars, auxVars, monVars, storeVars, ringVars >>

\* handleAbort(): Running -> Aborting; the engine is signalled
handleAbort ==
  /\ CanStep
  /\ currentState_ = "RUNNING"
  /\ transitionTo("ABORTING", "handleAbort")
  /\ UNCHANGED protocol_
  /\ UNCHANGED << serialVars, muxVars, auxVars, monVars, storeVars, ringVars >>

\* the engine delivers its terminal outcome and is gone: Completed takes
\* Running to Finished, the outcome awaited in Aborting takes it to Idle
EngineOutcome ==
  /\ CanStep
  /\ currentState_ \in {"RUNNING", "ABORTING"}
  /\ protocol_' = 0
  /\ IF currentState_ = "RUNNING"
       THEN transitionTo("FINISHED", "outcome")
       ELSE transitionTo("IDLE", "outcome")
  /\ UNCHANGED << serialVars, muxVars, auxVars, monVars, storeVars, ringVars >>

\* operator acknowledgement: Finished -> Idle; in Error the subsystems are
\* reinitialised, -> Idle if that succeeds, otherwise the state stays Error
Acknowledge(reinitOk) ==
  /\ CanStep
  /\ currentState_ \in {"FINISHED", "ERROR"}
  /\ IF currentState_ = "FINISHED" THEN transitionTo("IDLE", "ack")
     ELSE IF reinitOk THEN transitionTo("IDLE", "reinit")
     ELSE transitionTo("ERROR", "reinit failed")
  /\ UNCHANGED protocol_
  /\ UNCHANGED << serialVars, muxVars, auxVars, monVars, storeVars, ringVars >>

\* an abortCurrentProtocol that leaves the engine alive
abortCurrentProtocol_skip(n) == n

\* abortCurrentProtocol(): the current protocol is given up
abortCurrentProtocol(n) == 0

\* handleError(msg): logger_->log(SystemError); ui_->setDisplayState(ERROR);
\* abortCurrentProtocol(); transitionTo(State::IDLE)
handleError ==
  /\ CanStep
  /\ protocol_' = abortCurrentProtocol(protocol_)
  /\ transitionTo("IDLE", "handleError")
  /\ UNCHANGED << serialVars, muxVars, auxVars, monVars, storeVars, ringVars >>

(* ---------------------- RpcMultiplexer: operations --------------------- *)
\* signal ev to the waiter of every entry of entries
SignalAll(term, entries, ev) ==
  [t \in Tokens |->
     IF \E e \in entries : e.token = t THEN Append(term[t], ev) ELSE term[t]]

\* a reader that forgets to remove the entry it matched
RemoveEntry_keep(table, tok) == table

\* the in-flight table without the entry of tok
RemoveEntry(table, tok) == {e \in table : e.token # tok}

\* an allocator that hands out the same token again
AllocToken_same(n) == 1

\* token allocation is monotonic: the next token of the counter
AllocToken(n) == n

\* send(device, command, deadline): allocates a token and records an
\* in-flight entry before the framed command is written; on a permanently
\* failed channel it returns ChannelUnavailable at once
send(d, deadline) ==
  /\ nextToken <= MaxTokens
  /\ nextToken' = nextToken + 1
  /\ IF channelState[d] = "failed"
       THEN /\ terminal' =
                 [terminal EXCEPT
                    ![AllocToken(nextToken)] = Append(@, ChannelUnavailable)]
            /\ UNCHANGED inFlight
       ELSE /\ inFlight' =
                 [inFlight EXCEPT
                    ![d] = @ \cup {InFlightEntry(AllocToken(nextToken),
                                                 deadline)}]
            /\ UNCHANGED terminal
  /\ UNCHANGED << channelState, now >>
  /\ UNCHANGED << osVars, mgrVars, thr, ndebug, compVars, aborted, chanVars >>

\* the reader of d has a complete line carrying token tok and status st: it
\* looks the entry up, removes it and signals the waiter; a line whose token
\* matches no in-flight entry is not a valid Response
ReaderLine(d, tok, st) ==
  /\ channelState[d] = "up"
  /\ IF \E e \in inFlight[d] : e.token = tok
       THEN /\ inFlight' = [inFlight EXCEPT ![d] = RemoveEntry(@, tok)]
            /\ terminal' = [terminal EXCEPT ![tok] = Append(@, Response(st))]
       ELSE UNCHANGED << inFlight, terminal >>
  /\ UNCHANGED << channelState, nextToken, now >>
  /\ UNCHANGED << osVars, mgrVars, thr, ndebug, compVars, aborted, chanVars >>

\* the reader of d meets EOF or an unrecoverable error: every in-flight entry
\* of d fails with SerialIo and the channel is marked for reconnect
ReaderEof(d) ==
  /\ channelState[d] = "up"
  /\ terminal' = SignalAll(terminal, inFlight[d], SerialIo)
  /\ inFlight' = [inFlight EXCEPT ![d] = {}]
  /\ channelState' = [channelState EXCEPT ![d] = "lost"]
  /\ UNCHANGED << nextToken, now >>
  /\ UNCHANGED << osVars, mgrVars, thr, ndebug, compVars, aborted, chanVars >>

\* the entries of d whose deadline has passed at time t (a deadline equal to
\* the current time is expired)
Expired(d, t) == {e \in inFlight[d] : e.deadline <= t}

\* one tick of the timer task: it walks the tables and expires the entries
\* whose deadline passed, signalling Timeout
TimerTick ==
  /\ now < MaxTime \/ \E d \in MuxDevices : Expired(d, now) # {}
  /\ now' = IF now < MaxTime THEN now + 1 ELSE now
  /\ inFlight' = [d \in MuxDevices |-> inFlight[d] \ Expired(d, now')]
  /\ terminal' =
       SignalAll(terminal, UNION {Expired(d, now') : d \in MuxDevices}, Timeout)
  /\ UNCHANGED << channelState, nextToken >>
  /\ UNCHANGED << osVars, mgrVars, thr, ndebug, compVars, aborted, chanVars >>

\* abort_in_flight(device): cancels every in-flight request of the device
abort_in_flight(d) ==
  /\ terminal' = SignalAll(terminal, inFlight[d], Cancelled)
  /\ inFlight' = [inFlight EXCEPT ![d] = {}]
  /\ UNCHANGED << channelState, nextToken, now >>
  /\ UNCHANGED << osVars, mgrVars, thr, ndebug, compVars, aborted, chanVars >>

\* a reconnect attempt within the budget succeeds
Reconnect(d) ==
  /\ channelState[d] = "lost"
  /\ channelState' = [channelState EXCEPT ![d] = "up"]
  /\ UNCHANGED << inFlight, nextToken, now, terminal >>
  /\ UNCHANGED << osVars, mgrVars, thr, ndebug, compVars, aborted, chanVars >>

\* the reconnect budget is exhausted: the channel is permanently failed
ReconnectExhausted(d) ==
  /\ channelState[d] = "lost"
  /\ channelState' = [channelState EXCEPT ![d] = "failed"]
  /\ UNCHANGED << inFlight, nextToken, now, terminal >>
  /\ UNCHANGED << osVars, mgrVars, thr, ndebug, compVars, aborted, chanVars >>

(* --------------------------- specifications ---------------------------- *)
\* the payload of the Command each thread sends
PayloadOf(c) == IF c = "t1" THEN <<"a">> ELSE <<"b">>

\* the RPC manager with two sender threads, and a stand-alone channel being
\* opened and closed in the same process
Next ==
  \/ ConnectCall
  \/ ConnectOpen
  \/ ConnectEmplace
  \/ ConnectDtor
  \/ ConnectReturn
  \/ \E c \in Threads, d \in DeviceArgs : SendCall(c, d, PayloadOf(c))
  \/ \E c \in Threads : WriteStep(c)
  \/ \E c \in Threads : CallReturn(c)
  \/ ChanOpen
  \/ ChanClose

Spec == Init /\ [][Next]_vars

\* lines handed to chan.writeLine
WriteLines ==
  {<<>>, <<"a">>, <<"a", "b">>, <<"a", CR>>, <<LF>>, CRLF, <<"a", CR, LF>>}

\* a stand-alone channel that is opened, written to and closed
NextWrite ==
  \/ ChanOpen
  \/ ChanClose
  \/ \E l \in WriteLines : ChanWriteCall(l)
  \/ WriteStep(IoThread)
  \/ CallReturn(IoThread)

SpecWrite == Init /\ [][NextWrite]_vars

\* a stand-alone channel that is opened, read from and closed, and its device
NextRead ==
  \/ ChanOpen
  \/ ChanClose
  \/ \E to \in ReadTimeouts : ChanReadCall(to)
  \/ ChanReadStep
  \/ CallReturn(IoThread)
  \/ \E b \in RxBytes : DeviceSend(b)
  \/ DeviceHangup
  \/ DevicePlug

SpecRead == Init /\ [][NextRead]_vars

\* a stand-alone channel that is opened, read from, written to and closed
NextChan ==
  \/ ChanOpen
  \/ ChanClose
  \/ \E to \in ReadTimeouts : ChanReadCall(to)
  \/ ChanReadStep
  \/ \E l \in {<<"a">>} : ChanWriteCall(l)
  \/ WriteStep(IoThread)
  \/ CallReturn(IoThread)
  \/ DeviceSend("a")
  \/ DeviceHangup
  \/ DevicePlug

SpecChan == Init /\ [][NextChan]_vars

\* a stand-alone channel written to, whose tty may stop accepting bytes; a
\* writeLine that can make progress does, and its caller takes the result
NextBlock ==
  \/ NextWrite
  \/ DeviceBlock

SpecBlock ==
  Init /\ [][NextBlock]_vars
    /\ WF_vars(WriteStep(IoThread)) /\ WF_vars(CallReturn(IoThread))


\* one sender thread whose Command may be one byte over the frame limit, in
\* either build
NextFrame ==
  \/ ConnectCall
  \/ ConnectOpen
  \/ ConnectEmplace
  \/ ConnectDtor
  \/ ConnectReturn
  \/ \E d \in MuxDevices, p \in {<<"a">>, LongPayload} : SendCall("t1", d, p)
  \/ WriteStep("t1")
  \/ CallReturn("t1")
  \/ ChanOpen
  \/ ChanClose

SpecFrame == InitAnyBuild /\ [][NextFrame]_vars

\* the multiplexer with its readers, its timer task and the reconnect policy;
\* the timer task runs every tick
NextMux ==
  \/ \E d \in MuxDevices, dl \in Times : send(d, dl)
  \/ \E d \in MuxDevices, tok \in Tokens, st \in Statuses : ReaderLine(d, tok, st)
  \/ \E d \in MuxDevices : ReaderEof(d)
  \/ TimerTick
  \/ \E d \in MuxDevices : abort_in_flight(d)
  \/ \E d \in MuxDevices : Reconnect(d)
  \/ \E d \in MuxDevices : ReconnectExhausted(d)

SpecMux == Init /\ [][NextMux]_vars /\ WF_vars(TimerTick)

\* the ErrorMonitor with its reporting threads and the clock
NextMonitor ==
  \/ registerEscalation
  \/ \E m \in Messages : notifyFailure(m)
  \/ ClockTick

SpecMonitor == Init /\ [][NextMonitor]_vars

\* the ParameterStore shared by the UI thread and the protocol thread
NextStore ==
  \/ \E p \in Keys, v \in Values : StoreSetCall(p, v)
  \/ \E t \in StoreThreads, p \in Keys : StoreGetCall(t, p)
  \/ \E t \in StoreThreads : StoreSnapshotCall(t)
  \/ \E t \in StoreThreads : StoreLock(t)
  \/ \E t \in StoreThreads : StoreSetWrite(t)
  \/ \E t \in StoreThreads : StoreGetRead(t)
  \/ \E t \in StoreThreads : StoreSnapshotRead(t)
  \/ \E t \in StoreThreads : StoreUnlock(t)
  \/ \E t \in StoreThreads : StoreReturn(t)

SpecStore == Init /\ [][NextStore]_vars

\* one producer and one consumer on the ring buffer, at any interleaving
NextRing ==
  \/ PushCall
  \/ PushLoad
  \/ PushCheck
  \/ PushWrite
  \/ PushPublish
  \/ PopCall
  \/ PopCheck
  \/ PopAdvance

SpecRing == Init /\ [][NextRing]_vars

\* the button, its operator and the loop that polls it
NextButton ==
  \/ ButtonPush
  \/ ButtonRelease
  \/ \E dt \in PollSteps : ButtonPoll(dt)

SpecButton == Init /\ [][NextButton]_vars

\* the logger, its producer and its worker
NextLogger ==
  \/ startNewRun
  \/ log
  \/ LoggerWorker
  \/ finishRun

SpecLogger == Init /\ [][NextLogger]_vars

\* the coordinator FSM, driven by the operator, the engine and faults
NextCoord ==
  \/ \E ok \in BOOLEAN : initialize(ok)
  \/ handleStart
  \/ handleAbort
  \/ EngineOutcome
  \/ \E ok \in BOOLEAN : Acknowledge(ok)
  \/ handleError

SpecCoord == Init /\ [][NextCoord]_vars

(* ------------------------------- claims -------------------------------- *)
\* C1: connect() is idempotent.  A connect() entered while connected_ is set
\* returns at once without error and leaves the descriptor table, the wires,
\* the channel table and the connected flag as they were, call after call.
C1_ConnectIdempotent ==
  [][(connected_ /\ conn.pc = "idle" /\ conn'.pc # "idle")
       => /\ conn'.pc = "ret"
          /\ conn'.result = "ok"
          /\ conn'.notes = <<>>
          /\ UNCHANGED << fdTable, wire, tmp, channels_, connected_ >>]_vars

\* a connect() that met connected_ set has returned (its loop never started)
C1_Witness ==
  connected_ /\ conn.pc = "ret" /\ conn.result = "ok" /\ conn.idx = 1

\* C2: when connect() fails on a Device, the error names that Device, the
\* manager is not connected, and every channel opened earlier in the call has
\* been closed: no SerialChannel in the table still holds a descriptor.
C2_FailedConnectClosesAll ==
  (conn.pc = "ret" /\ conn.result = "error")
    => /\ conn.err = OpenFailedMsg(symlinks_[conn.idx].dev)
       /\ ~connected_
       /\ \A d \in DOMAIN channels_ : channels_[d].fd_ = NoFd

\* C3: a sendCommand(d, c) that returns normally has written exactly the
\* payload of c followed by one CR-LF, all of it to the tty of d and none of it
\* to any other tty.
C3_SendWritesOneLineToItsDevice ==
  \A c \in Threads :
    (thr[c].pc = "ret" /\ thr[c].result = "ok")
      => /\ thr[c].put = thr[c].cmd \o CRLF
         /\ thr[c].dests = {PathOf(thr[c].dev)}

\* the terminal events the claim lists; Response(error) is a Response whose
\* status is not Ok, that is Error or Nack
ListedEvents ==
  {Response(st) : st \in Statuses} \cup {Timeout, Cancelled, ChannelUnavailable}

\* the terminal events the multiplexer signals: SerialIo is what the reader
\* fails the in-flight entries with at EOF
SignalledEvents == ListedEvents \cup {SerialIo}

\* the Command with token t has been dispatched
Dispatched(t) == t < nextToken

C5_OneWriterPerDevice ==
  \A c1, c2 \in Threads :
    (c1 # c2 /\ thr[c1].pc = "write" /\ thr[c2].pc = "write"
       /\ thr[c1].dev = thr[c2].dev)
      => ~(thr[c1].total > 0 /\ thr[c2].total > 0)

\* the complete CR-LF-delimited segments of a byte sequence, in order
RECURSIVE Segments(_)
Segments(s) ==
  IF FindCRLF(s) = 0 THEN <<>>
  ELSE <<Take(s, FindCRLF(s) - 1)>> \o Segments(Drop(s, FindCRLF(s) + 1))

\* C6: the lines readLine has returned are a prefix of the CR-LF-delimited
\* segments of the bytes received so far.
C6_LinesInArrivalOrder == IsPrefix(lines, Segments(received))

\* two different lines have been returned, the second after bytes were left
\* buffered by an earlier call
C6_Witness == Len(lines) = 2 /\ lines[1] # lines[2]

\* a line without one trailing CR-LF
StripCRLF(s) == IF EndsWithCRLF(s) THEN Take(s, Len(s) - 2) ELSE s

\* C7: a writeLine(line) that returns true has put on the wire exactly line
\* followed by one CR-LF (line itself when it already ends with CR-LF).
C7_WriteLineFrames ==
  (thr[IoThread].pc = "ret" /\ thr[IoThread].result = "true")
    => /\ thr[IoThread].put = StripCRLF(thr[IoThread].line) \o CRLF
       /\ thr[IoThread].dests = {ChanPath}
       /\ IsPrefix(thr[IoThread].put,
                   Drop(wire[ChanPath],
                        Len(wire[ChanPath]) - Len(thr[IoThread].put)))

\* writeLine has returned true for a line that already ended with CR-LF
C7_Witness ==
  /\ thr[IoThread].pc = "ret"
  /\ thr[IoThread].result = "true"
  /\ thr[IoThread].line = <<"a", CR, LF>>

\* the SerialChannel objects alive: chan, connect()'s ch, the stored channels
HeldFds(o) == IF o.fd_ >= 0 /\ IsOpen(fdTable, o.fd_) THEN {o.fd_} ELSE {}

Holders(fd) ==
  (IF fd \in HeldFds(chan) THEN {"chan"} ELSE {})
    \cup (IF fd \in HeldFds(tmp) THEN {"ch"} ELSE {})
    \cup {d \in DOMAIN channels_ : fd \in HeldFds(channels_[d])}

\* C8: an open descriptor is held by at most one SerialChannel object, and
\* after a successful connect() every stored channel's descriptor is open.
C8_MoveTransfersOwnership ==
  /\ \A fd \in Fds : Cardinality(Holders(fd)) <= 1
  /\ connected_ =>
       \A d \in DOMAIN channels_ : IsOpen(fdTable, channels_[d].fd_)

\* C9: after open()/close() rounds on one SerialChannel no descriptor it
\* opened is still open, and a step that leaves the channel closed, such as
\* close() on a closed channel, closes nothing.
C9_NoDescriptorLeft ==
  /\ []((chan.fd_ = NoFd /\ ~chanReopened)
          => \A fd \in Fds : fdTable[fd].opener # "chan")
  /\ [][(chan.fd_ = NoFd /\ chan'.fd_ = NoFd) => fdTable' = fdTable]_vars

\* the channel is closed again after it was open and read from
C9_Witness == chan.fd_ = NoFd /\ ~chanReopened /\ received # <<>>

\* C10: no byte of a frame longer than 256 bytes is written.
C10_NoLongFrameWritten ==
  \A c \in Threads :
    thr[c].put # <<>> => Len(FrameOf(thr[c].line)) <= kMaxFrame

\* the de-duplication window of one second, in clock ticks
DedupWindow == 1

\* how often x occurs in the sequence q
Count(q, x) == Cardinality({i \in 1 .. Len(q) : q[i] = x})

\* notification i repeats the content of an earlier one within the window
IsDuplicate(i) ==
  \E j \in 1 .. (i - 1) :
    /\ notified[j].msg = notified[i].msg
    /\ notified[i].at - notified[j].at < DedupWindow

\* C11: a failure notified while a handler is registered has been escalated,
\* and a message is escalated at most once per notification that does not
\* repeat an earlier one within the de-duplication window.
C11_EscalatedOncePerFailure ==
  \A m \in Messages :
    /\ (\E i \in 1 .. Len(notified) : notified[i].msg = m /\ notified[i].reg)
         => Count(escalated, m) >= 1
    /\ Count(escalated, m)
         <= Cardinality({i \in 1 .. Len(notified) :
                          notified[i].msg = m /\ ~IsDuplicate(i)})
\* C12: every value get returns, and every value in a snapshot, lies within
\* the declared bounds of its key.
C12_ValuesWithinBounds ==
  \A t \in StoreThreads :
    sthr[t].pc = "ret" =>
      /\ sthr[t].op = "get" => InBounds(sthr[t].key, sthr[t].result)
      /\ sthr[t].op = "snapshot" =>
           \A k \in Keys :
             sthr[t].result[k].tag # "missing"
               => InBounds(k, sthr[t].result[k].v)

\* C13: a get returns the value of the last set of its key that returned
\* before the get was called, or that of a set running alongside it; never a
\* value that was not written or a half-written one.
C13_Linearizable ==
  \A t \in StoreThreads :
    (sthr[t].pc = "ret" /\ sthr[t].op = "get") => sthr[t].result \in sthr[t].adm

\* the protocol thread's get has returned the value a set wrote while the get
\* was waiting
C13_Witness ==
  /\ sthr["proto"].pc = "ret"
  /\ sthr["proto"].op = "get"
  /\ sthr["proto"].result = sthr["ui"].val
  /\ sthr["proto"].result # ValueOf(Missing)
  /\ Cardinality(sthr["proto"].adm) = 2
\* C14: after an Error, Running comes only after an Idle, and the first state
\* entered after that Error is an Idle entered by a successful reinit.
C14_NoErrorToRunning ==
  \A i \in 1 .. Len(fsmLog) : \A j \in (i + 1) .. Len(fsmLog) :
    (fsmLog[i].st = "ERROR" /\ fsmLog[j].st = "RUNNING")
      => /\ \E k \in (i + 1) .. (j - 1) : fsmLog[k].st = "IDLE"
         /\ fsmLog[i + 1] = [st |-> "IDLE", by |-> "reinit"]

\* the transition table of the coordinator FSM
TransitionTable ==
  { << "BOOT", "INIT" >>, << "INIT", "IDLE" >>, << "IDLE", "RUNNING" >>,
    << "RUNNING", "FINISHED" >>, << "FINISHED", "IDLE" >>,
    << "RUNNING", "ABORTING" >>, << "ABORTING", "IDLE" >>,
    << "BOOT", "ERROR" >>, << "INIT", "ERROR" >>, << "IDLE", "ERROR" >>,
    << "RUNNING", "ERROR" >>, << "ERROR", "IDLE" >> }

\* C15: the FSM starts in Boot and every state change is in the table.
C15_TransitionsInTable ==
  /\ fsmLog[1].st = "BOOT"
  /\ \A i \in 1 .. (Len(fsmLog) - 1) :
       << fsmLog[i].st, fsmLog[i + 1].st >> \in TransitionTable

C17_ErrorUntilAcknowledged ==
  \A i \in 1 .. (Len(fsmLog) - 1) :
    fsmLog[i].st = "ERROR"
      => (fsmLog[i + 1].st = "IDLE" /\ fsmLog[i + 1].by = "reinit")

C19_FullPushRejected ==
  [][(prod.pc = "check" /\ prod'.pc # "check" /\ head_ - tail_ = RingCapacity)
       => /\ prod'.pc = "idle" /\ prod'.ret = "false"
          /\ dropped_' = dropped_ + 1
          /\ Queue' = Queue
          /\ pushed' = pushed]_vars

\* a push was rejected and the buffer still holds capacity elements
C19_Witness ==
  /\ prod.pc = "idle" /\ prod.ret = "false"
  /\ dropped_ = 1
  /\ head_ - tail_ = RingCapacity
  /\ Queue = pushed

\* C20: the values popped are the values accepted, in the same order: the
\* popped sequence is a prefix of the accepted one, and with both threads
\* idle the popped values followed by the queued ones are all that was
\* accepted.
C20_PoppedIsPushed ==
  /\ Len(popped) <= Len(pushed)
  /\ popped = SubSeq(pushed, 1, Len(popped))
  /\ (prod.pc = "idle" /\ cons.pc = "idle") => popped \o Queue = pushed

\* the cursors have wrapped and a pop completed while a push was writing
C20_Witness ==
  /\ Len(popped) > RingCapacity
  /\ prod.pc = "writing"
  /\ cons.pc = "idle"
\* C23: a connect() that fails to open a Device, and a sendCommand that fails
\* to write to one, has called notifyFailure exactly once before the error
\* reaches the caller, with a message that names that Device; a call that
\* ends otherwise has not called it.
C23_FailureNotifiedOnce ==
  /\ conn.pc = "ret"
       => conn.notes =
            IF conn.result = "error"
              THEN << [what |-> "open failed", dev |-> symlinks_[conn.idx].dev] >>
              ELSE << >>
  /\ \A c \in Threads :
       thr[c].pc = "ret"
         => thr[c].notes =
              IF thr[c].result = "write failed"
                THEN << [what |-> "write failed", dev |-> thr[c].dev] >>
                ELSE << >>

\* a sendCommand is about to throw after a write that failed part-way
C23_Witness ==
  \E c \in Threads :
    /\ thr[c].pc = "ret"
    /\ thr[c].result = "write failed"
    /\ thr[c].put # << >>

\* C27: a connect() that failed leaves the manager not connected, and while
\* it is not connected no sendCommand is writing: each one has failed with
\* the not-connected error, having written and notified nothing.
C27_NotConnectedAfterFailure ==
  /\ (conn.pc = "ret" /\ conn.result = "error") => ~connected_
  /\ ~connected_
       => \A c \in Threads :
            /\ thr[c].pc # "write"
            /\ thr[c].pc = "ret"
                 => /\ thr[c].result = "not connected"
                    /\ thr[c].put = << >>
                    /\ thr[c].dests = {}

\* a sendCommand has failed after a connect() that opened one Device and
\* failed on the next
C27_Witness ==
  /\ ~connected_
  /\ conn.pc = "idle"
  /\ DOMAIN channels_ # {}
  /\ \E c \in Threads : thr[c].pc = "ret" /\ thr[c].result = "not connected"
\* C24: once readLine has met end-of-file the channel is closed, and until an
\* open() succeeds no readLine and no writeLine gets as far as polling,
\* reading or writing: each returns at once, readLine no line and writeLine
\* false.
C24_ClosedAfterEof ==
  eofClosed
    => /\ chan.fd_ = NoFd
       /\ thr[IoThread].pc \notin {"read", "write"}
       /\ thr[IoThread].pc = "ret"
            => thr[IoThread].result \in {"nullopt", "false"}

\* a writeLine has returned false on the channel that end-of-file closed,
\* with the cable plugged in again
C24_Witness ==
  /\ eofClosed
  /\ ~hup
  /\ thr[IoThread].pc = "ret"
  /\ thr[IoThread].result = "false"

\* C25: a writeLine that has entered its write loop eventually returns.
C25_WriteLineTerminates ==
  (thr[IoThread].pc = "write") ~> (thr[IoThread].pc = "ret")

\* C26: no line readLine returns holds a byte that was received before the
\* channel was last closed, by close() or at end-of-file.
C26_NoStaleBytes ==
  (thr[IoThread].pc = "ret" /\ thr[IoThread].result = "line")
    => thr[IoThread].old = 0

\* C28: a readLine called with a timeout of zero returns no line in that
\* step, without polling or reading: the descriptor table, the bytes waiting
\* on the line and the channel are as they were.
C28_ZeroTimeoutExpired ==
  [][(thr[IoThread].pc = "idle" /\ thr'[IoThread].timeout = << 0 >>)
       => /\ thr'[IoThread].pc = "ret"
          /\ thr'[IoThread].result = "nullopt"
          /\ UNCHANGED << fdTable, rxq, chan, received, lines >>]_vars

\* a readLine with a timeout of zero has returned on an open channel with a
\* complete line waiting to be read
C28_Witness ==
  /\ thr[IoThread].pc = "ret"
  /\ thr[IoThread].timeout = << 0 >>
  /\ IsOpen(fdTable, chan.fd_)
  /\ FindCRLF(rxq) # 0
\* C22: every hold yields at most one press event, and an event is a
\* LongPress if the hold lasted the long-press threshold or longer, a
\* ShortPress if it lasted at least 50 ms and less than the threshold; a hold
\* of less than 50 ms yields none.
C22_PressClassified ==
  /\ presses <= holds
  /\ presses = 0 <=> lastPress.ev = "none"
  /\ presses > 0 =>
       /\ lastPress.d >= 50
       /\ lastPress.ev = IF lastPress.d >= 1000 THEN "LongPress" ELSE "ShortPress"

\* a hold of exactly the threshold was followed by one too short to count
C22_Witness ==
  /\ holds = 2
  /\ presses = 1
  /\ lastPress = [d |-> 1000, ev |-> "LongPress"]
\* how many lines of the file belong to event e
LinesOf(e) == Cardinality({i \in 1 .. Len(storage) : storage[i].ev = e})

\* C21: every event passed to Logger::log is either still queued, or
\* written to storage as one complete line, or counted in the dropped-event
\* counter; none is written in part, written twice or lost uncounted, also
\* across finishRun.
C21_WrittenOrCounted ==
  /\ \A i \in 1 .. Len(storage) : storage[i].nl
  /\ \A e \in 1 .. logged : LinesOf(e) <= 1
  /\ logged = Len(logQueue) + Len(storage) + events_dropped
====
